---------------------------- MODULE Spec2Model ----------------------------
(***************************************************************************)
(* Model of streamlit_app.py: a Streamlit page that builds a YouTube API   *)
(* client once per session, lists the video categories of a country and,   *)
(* on a button press, shows the country's most popular videos.             *)
(*                                                                         *)
(* The script is re-executed top to bottom on every interaction of a       *)
(* session (a "rerun").  st.session_state is per session; the two          *)
(* functions decorated with st.cache_data(ttl=3600) use Streamlit's data   *)
(* cache, which is one store per decorated function for the whole server   *)
(* process, keyed by the call's arguments.                                 *)
(*                                                                         *)
(* Strings: "All" stands for the source's key "전체"; Python's None in the *)
(* session slot is the string "None".                                      *)
(***************************************************************************)
EXTENDS Integers, Sequences, FiniteSets, TLC

\* ------------------------------------------------------------------ bounds

\* Clock advances the model explores (each of ClockStep seconds).
MaxTicks == 2
\* Script runs (over all sessions) the model explores.
MaxReruns == 4
\* Longest batch of video records the render loop is explored on.
MaxBatch == 4

\* --------------------------------------------------------- program constants

\* ttl=3600 of both st.cache_data decorators.
TTL == 3600
\* max_results=30, the default of get_popular_videos.
MaxResults == 30
\* st.columns(3): the grid's column count, and the i % 3 of the loop.
GridColumns == 3

ClockStep == TTL \div 2

\* Two browser sessions connected to the one server process.
Sessions == {"s1", "s2"}

\* COUNTRIES: the region codes of its first two entries, in its order.
COUNTRIES == <<"KR", "US">>

Regions == {COUNTRIES[i] : i \in 1..Len(COUNTRIES)}

\* ------------------------------------------------------------ session slot

\* 'youtube' not yet a key of st.session_state.
Unset == "unset"
\* st.session_state.youtube = None
Absent == "None"
\* st.session_state.youtube = the object build() returned
Client == "client"

\* Python truthiness of st.session_state.youtube.
Truthy(slot) == slot = Client

\* A bug the session-slot test could have: testing the value, not the key.
NotInSessionStateRetry(slot) == slot \in {Unset, Absent}

\* if 'youtube' not in st.session_state:
NotInSessionState(slot) == slot = Unset

\* The initialisation block: what the slot holds after it, whether the
\* credential was read and whether build() was attempted.
SessionInit(slot, keyPresent, buildOk) ==
    IF NotInSessionState(slot)
    THEN [youtube |-> IF keyPresent /\ buildOk THEN Client ELSE Absent,
          envRead |-> 1,
          built   |-> IF keyPresent THEN 1 ELSE 0]
    ELSE [youtube |-> slot, envRead |-> 0, built |-> 0]

\* ------------------------------------------------------------ Python dicts

\* An insertion-ordered dict is a sequence of <<key, value>> pairs with
\* distinct keys.
EmptyDict == <<>>

Keys(d) == [i \in 1..Len(d) |-> d[i][1]]

HasKey(d, k) == \E i \in 1..Len(d) : d[i][1] = k

Lookup(d, k) == d[CHOOSE i \in 1..Len(d) : d[i][1] = k][2]

\* d[k] = v: an existing key keeps its position and takes the new value.
DictSet(d, k, v) ==
    IF HasKey(d, k)
    THEN [i \in 1..Len(d) |-> IF d[i][1] = k THEN <<k, v>> ELSE d[i]]
    ELSE Append(d, <<k, v>>)

RECURSIVE DictUpdate(_, _)
\* {**d, **e}
DictUpdate(d, e) ==
    IF e = <<>> THEN d
    ELSE DictUpdate(DictSet(d, Head(e)[1], Head(e)[2]), Tail(e))

\* ------------------------------------------------------- the upstream API

\* response['items'] of a successful videoCategories().list call: one
\* assignable category, one marked not assignable, one without the flag.
CategoryItems ==
    << [id |-> "27", title |-> "Education", assignable |-> "true"],
       [id |-> "43", title |-> "Shows", assignable |-> "false"],
       [id |-> "44", title |-> "Trailers", assignable |-> "missing"] >>

\* How request.execute() of the categories query may end.
CategoryOutcomes == {"ok", "error"}

\* How request.execute() of the videos query may end: items, no items, an
\* HttpError, any other exception.
VideoOutcomes == {"items", "empty", "http_error", "other_error"}

\* ------------------------------------------------------------ video records

\* A video record by the field it lacks ("full" lacks none; "no_viewCount"
\* has statistics without viewCount).
RecordKinds ==
    {"full", "no_snippet", "no_statistics", "no_id", "no_thumbnail",
     "no_title", "no_channelTitle", "no_viewCount"}

\* The items of a successful videos().list call with results.
VideoItems == <<"full", "no_statistics">>

\* What get_popular_videos returns: None, or a list of records.
None == [none |-> TRUE, items |-> <<>>]

List(items) == [none |-> FALSE, items |-> items]

\* ------------------------------------------------------- get_video_categories

RECURSIVE AssignableCategories(_)
\* {item['snippet']['title']: item['id'] for item in response['items']
\*  if item['snippet'].get('assignable', False)}
AssignableCategories(items) ==
    IF items = <<>> THEN EmptyDict
    ELSE LET rest == AssignableCategories(Tail(items))
             item == Head(items)
         IN  IF item.assignable = "true"
             THEN DictUpdate(<<<<item.title, item.id>>>>, rest)
             ELSE rest

\* The request of the categories query.
CategoryRequest(region) == [part |-> "snippet", regionCode |-> region]

\* A bug the except branch could have: returning the empty dict.
GetVideoCategoriesBodyEmptyOnError(slot, region, outcome) ==
    IF ~Truthy(slot) \/ outcome # "ok"
    THEN [value |-> EmptyDict,
          queries |-> IF Truthy(slot) THEN <<CategoryRequest(region)>> ELSE <<>>,
          outcome |-> IF Truthy(slot) THEN outcome ELSE "no_client"]
    ELSE [value |-> DictUpdate(<<<<"All", "0">>>>, AssignableCategories(CategoryItems)),
          queries |-> <<CategoryRequest(region)>>,
          outcome |-> outcome]

\* The body of get_video_categories, run on a cache miss: the value it
\* returns, the upstream queries it issued and how it ended.
GetVideoCategoriesBody(slot, region, outcome) ==
    IF ~Truthy(slot)
    THEN [value |-> EmptyDict, queries |-> <<>>, outcome |-> "no_client"]
    ELSE IF outcome = "ok"
    THEN [value |-> DictUpdate(<<<<"All", "0">>>>, AssignableCategories(CategoryItems)),
          queries |-> <<CategoryRequest(region)>>,
          outcome |-> "ok"]
    ELSE [value |-> <<<<"All", "0">>>>,
          queries |-> <<CategoryRequest(region)>>,
          outcome |-> outcome]

\* --------------------------------------------------------- get_popular_videos

\* Python truthiness of a category id (a string, or None as "<None>").
NoId == "<None>"

IdTruthy(id) == id \notin {NoId, ""}

\* A bug the filter test could have: passing the sentinel through.
RequestParamsAlwaysFilter(region, categoryId, maxResults) ==
    [part |-> "snippet,statistics", chart |-> "mostPopular",
     regionCode |-> region, maxResults |-> maxResults,
     videoCategoryId |-> categoryId]

\* request_params, with videoCategoryId only for a truthy id other than "0".
RequestParams(region, categoryId, maxResults) ==
    IF IdTruthy(categoryId) /\ categoryId # "0"
    THEN [part |-> "snippet,statistics", chart |-> "mostPopular",
          regionCode |-> region, maxResults |-> maxResults,
          videoCategoryId |-> categoryId]
    ELSE [part |-> "snippet,statistics", chart |-> "mostPopular",
          regionCode |-> region, maxResults |-> maxResults]

\* The body of get_popular_videos, run on a cache miss.
GetPopularVideosBody(slot, region, categoryId, maxResults, outcome) ==
    IF ~Truthy(slot)
    THEN [value |-> None, queries |-> <<>>, outcome |-> "no_client"]
    ELSE LET q == <<RequestParams(region, categoryId, maxResults)>>
         IN  CASE outcome = "items" ->
                    [value |-> List(VideoItems), queries |-> q, outcome |-> outcome]
               [] outcome = "empty" ->
                    [value |-> List(<<>>), queries |-> q, outcome |-> outcome]
               [] OTHER ->
                    [value |-> None, queries |-> q, outcome |-> outcome]

\* ------------------------------------------------------------- st.cache_data

\* A cache is a function from the stored keys to entries
\* [value, expires, by]; `by` is history: the session whose call stored it.

\* A bug the expiry test could have: entries that never expire.
CacheHitNoExpiry(cache, key, t) == key \in DOMAIN cache

\* An entry is served while the clock is before its expiry time.
CacheHit(cache, key, t) == key \in DOMAIN cache /\ t < cache[key].expires

\* Storing a value drops the entries that have expired.
CachePut(cache, key, value, t, s) ==
    LET live == {k \in DOMAIN cache : t < cache[k].expires /\ k # key}
    IN  [k \in live \cup {key} |->
            IF k = key THEN [value |-> value, expires |-> t + TTL, by |-> s]
            ELSE cache[k]]

\* A call of a decorated function: a hit returns the stored value and runs
\* nothing; a miss runs the body and stores what it returns.
CachedCall(cache, key, t, s, body) ==
    IF CacheHit(cache, key, t)
    THEN [hit |-> TRUE, value |-> cache[key].value, queries |-> <<>>,
          outcome |-> "cached", cache |-> cache]
    ELSE [hit |-> FALSE, value |-> body.value, queries |-> body.queries,
          outcome |-> body.outcome,
          cache |-> CachePut(cache, key, body.value, t, s)]

\* ------------------------------------------------------------ the video grid

\* The fields a record of each kind has; a record without snippet has none
\* of the fields nested in it, one without statistics has no viewCount.
AllFields ==
    {"snippet", "statistics", "id", "thumbnail", "title", "channelTitle",
     "viewCount"}

FieldsOf(kind) ==
    CASE kind = "full" -> AllFields
      [] kind = "no_snippet" -> {"statistics", "id", "viewCount"}
      [] kind = "no_statistics" -> AllFields \ {"statistics", "viewCount"}
      [] kind = "no_id" -> AllFields \ {"id"}
      [] kind = "no_thumbnail" -> AllFields \ {"thumbnail"}
      [] kind = "no_title" -> AllFields \ {"title"}
      [] kind = "no_channelTitle" -> AllFields \ {"channelTitle"}
      [] kind = "no_viewCount" -> AllFields \ {"viewCount"}

\* The statements of the try block after the container is opened, in order:
\* the key each looks up with [] (a KeyError when missing) and the element
\* it draws ("" for none).  The last one reads viewCount with .get(.., 0).
CardSteps ==
    << [key |-> "snippet", draws |-> ""],
       [key |-> "statistics", draws |-> ""],
       [key |-> "id", draws |-> ""],
       [key |-> "thumbnail", draws |-> "image"],
       [key |-> "title", draws |-> "title"],
       [key |-> "channelTitle", draws |-> "channel"],
       [key |-> "", draws |-> "views"] >>

\* A bug the except branch could have: the warning always in the first column.
SlotFirstColumn(i) == 0

\* video_cols[i % 3]
Slot(i) == i % GridColumns

Element(i, what, detail) ==
    [col |-> Slot(i), index |-> i, what |-> what, detail |-> detail]

RECURSIVE CardFrom(_, _, _)
\* The elements the statements from step n on draw for record i, ending
\* with the warning of the except branch at the first missing key.
CardFrom(i, fields, n) ==
    IF n > Len(CardSteps) THEN <<>>
    ELSE LET step == CardSteps[n]
         IN  IF step.key # "" /\ step.key \notin fields
             THEN <<Element(i, "warning", step.key)>>
             ELSE IF step.draws = "" THEN CardFrom(i, fields, n + 1)
             ELSE IF step.draws = "views"
             THEN <<Element(i, "views",
                            IF "viewCount" \in fields THEN "viewCount" ELSE "0")>>
                  \o CardFrom(i, fields, n + 1)
             ELSE <<Element(i, step.draws, "")>> \o CardFrom(i, fields, n + 1)

\* One iteration of the loop: the bordered container, then the card.
RenderRecord(i, kind) ==
    <<Element(i, "container", "")>> \o CardFrom(i, FieldsOf(kind), 1)

RECURSIVE RenderFrom(_, _)
\* for i, video in enumerate(video_items), from index i on.
RenderFrom(items, i) ==
    IF i >= Len(items) THEN <<>>
    ELSE RenderRecord(i, items[i + 1]) \o RenderFrom(items, i + 1)

\* if cols[2].button(..): st.button is True only in the run its click caused.
ButtonPressedAlways(trigger) == TRUE

ButtonPressed(trigger) == trigger.kind = "button"

\* What the page shows below the filters after a run.
Page(pressed, selectedId, videoItems, slot) ==
    IF ~pressed THEN [view |-> "hint", grid |-> <<>>]
    ELSE IF ~IdTruthy(selectedId) THEN [view |-> "no_category_error", grid |-> <<>>]
    ELSE IF ~videoItems.none /\ videoItems.items # <<>>
    THEN [view |-> "grid", grid |-> RenderFrom(videoItems.items, 0)]
    ELSE IF Truthy(slot) THEN [view |-> "no_videos_info", grid |-> <<>>]
    ELSE [view |-> "header_only", grid |-> <<>>]

\* ------------------------------------------------------------------- state

VARIABLES
    youtube,      \* per session: st.session_state.youtube (Unset before the first run)
    selCountry,   \* per session: the country selectbox's value, as a region code
    selCategory,  \* per session: the category selectbox's value
    options,      \* per session: the category names the selectbox offered (<<>>: disabled)
    catCache,     \* the process-wide cache of get_video_categories
    vidCache,     \* the process-wide cache of get_popular_videos
    now,          \* the clock the caches read, in seconds
    envReads,     \* history, per session: os.getenv("YOUTUBE_API_KEY") calls
    builds,       \* history, per session: googleapiclient.discovery.build calls
    reruns,       \* history: script runs so far
    last,         \* history: what the latest script run did and showed
    batch,        \* render loop: video_items
    idx,          \* render loop: i, the next index
    out           \* render loop: the elements drawn so far

appVars ==
    <<youtube, selCountry, selCategory, options, catCache, vidCache, now,
      envReads, builds, reruns, last>>

renderVars == <<batch, idx, out>>

vars ==
    <<youtube, selCountry, selCategory, options, catCache, vidCache, now,
      envReads, builds, reruns, last, batch, idx, out>>

\* The label of the disabled selectbox ("카테고리 로딩 실패").
Placeholder == "load_failed"

\* The cache of an undecorated call that has stored nothing.
EmptyCache == [k \in {} |-> 0]

NoRun ==
    [sess |-> "", trigger |-> "none", at |-> 0, region |-> "", initRan |-> FALSE,
     categories |-> EmptyDict, catHit |-> FALSE, catQueries |-> <<>>,
     catOutcome |-> "", catBy |-> "", disabled |-> FALSE,
     selectedId |-> NoId, vidCalled |-> FALSE, vidHit |-> FALSE,
     vidQueries |-> <<>>, vidOutcome |-> "", vidBy |-> "", vidResult |-> None,
     view |-> "", grid |-> <<>>]

AppInit ==
    /\ youtube = [s \in Sessions |-> Unset]
    /\ selCountry = [s \in Sessions |-> COUNTRIES[1]]
    /\ selCategory = [s \in Sessions |-> ""]
    /\ options = [s \in Sessions |-> <<>>]
    /\ catCache = EmptyCache
    /\ vidCache = EmptyCache
    /\ now = 0
    /\ envReads = [s \in Sessions |-> 0]
    /\ builds = [s \in Sessions |-> 0]
    /\ reruns = 0
    /\ last = NoRun

RenderIdle == batch = <<>> /\ idx = 0 /\ out = <<>>

Init == AppInit /\ RenderIdle

\* What can cause a run of session s: opening the page, choosing another
\* country, choosing another of the offered categories, clicking the button.
Triggers(s) ==
    IF youtube[s] = Unset THEN {[kind |-> "load", arg |-> ""]}
    ELSE {[kind |-> "country", arg |-> r] : r \in Regions \ {selCountry[s]}}
         \cup {[kind |-> "category", arg |-> options[s][i]] :
                  i \in {j \in 1..Len(options[s]) : options[s][j] # selCategory[s]}}
         \cup {[kind |-> "button", arg |-> ""]}

InSeq(x, q) == \E i \in 1..Len(q) : q[i] = x

\* What the environment may answer to a run: os.getenv finding the key or
\* not and build() succeeding or raising (read only by the initialisation
\* block), and how each upstream query ends (read only when it is issued).
Credentials(slot) ==
    IF NotInSessionState(slot)
    THEN {[keyPresent |-> TRUE, buildOk |-> TRUE],
          [keyPresent |-> TRUE, buildOk |-> FALSE],
          [keyPresent |-> FALSE, buildOk |-> TRUE]}
    ELSE {[keyPresent |-> TRUE, buildOk |-> TRUE]}

CategoryDraws(cache, region, slot) ==
    IF CacheHit(cache, region, now) \/ ~Truthy(slot) THEN {"ok"}
    ELSE CategoryOutcomes

VideoDraws(cache, key, slot, fetch) ==
    IF ~fetch \/ CacheHit(cache, key, now) \/ ~Truthy(slot) THEN {"empty"}
    ELSE VideoOutcomes

\* The first half of a run: the initialisation block and the two selectors.
Filters(s, trigger, cred, catOutcome) ==
    LET init == SessionInit(youtube[s], cred.keyPresent, cred.buildOk)
        region == IF trigger.kind = "country" THEN trigger.arg ELSE selCountry[s]
        catCall == CachedCall(catCache, region, now, s,
                              GetVideoCategoriesBody(init.youtube, region, catOutcome))
        names == Keys(catCall.value)
        \* if categories:
        enabled == catCall.value # EmptyDict
        name == IF ~enabled THEN Placeholder
                ELSE IF trigger.kind = "category" /\ InSeq(trigger.arg, names)
                THEN trigger.arg
                ELSE IF InSeq(selCategory[s], names) THEN selCategory[s]
                ELSE names[1]
    IN  [init |-> init, region |-> region, catCall |-> catCall,
         names |-> names, enabled |-> enabled, name |-> name,
         selectedId |-> IF enabled THEN Lookup(catCall.value, name) ELSE NoId]

\* One run of the script for session s, top to bottom.
Run(s, trigger, cred, catOutcome) ==
    LET f == Filters(s, trigger, cred, catOutcome)
        slot == f.init.youtube
        pressed == ButtonPressed(trigger)
        \* if selected_category_id:
        fetch == pressed /\ IdTruthy(f.selectedId)
        key == <<f.region, f.selectedId, MaxResults>>
    IN  \E vidOutcome \in VideoDraws(vidCache, key, slot, fetch) :
        LET vidCall == CachedCall(vidCache, key, now, s,
                                  GetPopularVideosBody(slot, f.region, f.selectedId,
                                                       MaxResults, vidOutcome))
            page == Page(pressed, f.selectedId,
                         IF fetch THEN vidCall.value ELSE None, slot)
        IN  /\ youtube' = [youtube EXCEPT ![s] = slot]
            /\ envReads' = [envReads EXCEPT ![s] = @ + f.init.envRead]
            /\ builds' = [builds EXCEPT ![s] = @ + f.init.built]
            /\ selCountry' = [selCountry EXCEPT ![s] = f.region]
            /\ selCategory' = [selCategory EXCEPT ![s] = f.name]
            /\ options' = [options EXCEPT ![s] = f.names]
            /\ catCache' = f.catCall.cache
            /\ vidCache' = IF fetch THEN vidCall.cache ELSE vidCache
            /\ reruns' = reruns + 1
            /\ last' =
                 [sess |-> s, trigger |-> trigger.kind, at |-> now,
                  region |-> f.region,
                  initRan |-> f.init.envRead = 1,
                  categories |-> f.catCall.value, catHit |-> f.catCall.hit,
                  catQueries |-> f.catCall.queries,
                  catOutcome |-> f.catCall.outcome,
                  catBy |-> f.catCall.cache[f.region].by,
                  disabled |-> ~f.enabled, selectedId |-> f.selectedId,
                  vidCalled |-> fetch,
                  vidHit |-> fetch /\ vidCall.hit,
                  vidQueries |-> IF fetch THEN vidCall.queries ELSE <<>>,
                  vidOutcome |-> IF fetch THEN vidCall.outcome ELSE "",
                  vidBy |-> IF fetch THEN vidCall.cache[key].by ELSE "",
                  vidResult |-> IF fetch THEN vidCall.value ELSE None,
                  view |-> page.view, grid |-> page.grid]
            /\ now' = now

\* The sessions are named in their order of arrival.
MayRun(s) == s = "s1" \/ youtube["s1"] # Unset

Rerun ==
    /\ reruns < MaxReruns
    /\ \E s \in {t \in Sessions : MayRun(t)} : \E trigger \in Triggers(s) :
       \E cred \in Credentials(youtube[s]) :
       \E catOutcome \in CategoryDraws(catCache,
                            IF trigger.kind = "country" THEN trigger.arg
                            ELSE selCountry[s],
                            SessionInit(youtube[s], cred.keyPresent, cred.buildOk).youtube) :
           Run(s, trigger, cred, catOutcome)
    /\ UNCHANGED renderVars

\* Time passes between runs; the clock reads 0 at the first run.
Tick ==
    /\ reruns > 0
    /\ now < MaxTicks * ClockStep
    /\ now' = now + ClockStep
    /\ UNCHANGED <<youtube, selCountry, selCategory, options, catCache,
                   vidCache, envReads, builds, reruns, last>>
    /\ UNCHANGED renderVars

Next == Rerun \/ Tick

Spec == Init /\ [][Next]_vars

\* --------------------------------------------------- the render loop alone

RECURSIVE Batches(_)
\* The lists of at most n records.
Batches(n) ==
    IF n = 0 THEN {<<>>}
    ELSE LET shorter == Batches(n - 1)
         IN  shorter \cup {Append(b, k) : b \in {c \in shorter : Len(c) = n - 1},
                                         k \in RecordKinds}

RenderInit ==
    /\ AppInit
    /\ batch \in Batches(MaxBatch)
    /\ idx = 0
    /\ out = <<>>

\* One iteration of `for i, video in enumerate(video_items)`.
RenderStep ==
    /\ idx < Len(batch)
    /\ out' = out \o RenderRecord(idx, batch[idx + 1])
    /\ idx' = idx + 1
    /\ UNCHANGED batch
    /\ UNCHANGED appVars

RenderNext == RenderStep

SpecRender == RenderInit /\ [][RenderNext]_vars

\* ------------------------------------------------------------------ claims

\* A step that is a script run (not a clock advance).
IsRun == reruns' = reruns + 1

\* The cache holds an entry for key that is younger than TTL at time t.
Younger(cache, key, t) ==
    key \in DOMAIN cache /\ t - (cache[key].expires - TTL) < TTL

\* C1: within one session the client is constructed at most once: the first
\* run fills the session slot with a handle or None, reading the credential
\* once; every later run leaves the slot as it is, reads no credential and
\* attempts no construction, so a session without a client stays without.
C1_ClientBuiltAtMostOnce ==
    /\ [](\A s \in Sessions :
            /\ builds[s] <= 1
            /\ envReads[s] <= 1
            /\ (youtube[s] = Unset <=> envReads[s] = 0)
            /\ (youtube[s] = Client => builds[s] = 1))
    /\ [][\A s \in Sessions :
            youtube[s] # Unset =>
                /\ youtube'[s] = youtube[s]
                /\ builds'[s] = builds[s]
                /\ envReads'[s] = envReads[s]]_vars

\* C1 witness: a session whose build() raised has run again, without a
\* second initialisation.
C1_Witness ==
    /\ last.sess = "s1"
    /\ ~last.initRan
    /\ youtube["s1"] = Absent
    /\ builds["s1"] = 1

\* C2 as claimed: whatever the state, the mapping get_video_categories
\* returns has "All" as its first key, mapped to "0".
C2_Original ==
    last.trigger # "none" =>
        /\ last.categories # EmptyDict
        /\ last.categories[1] = <<"All", "0">>

\* C2 amended: a mapping computed with a client (upstream success or
\* failure) has "All" -> "0" first; one computed without a client is empty;
\* so every mapping returned, computed or cached, is empty or starts with
\* "All" -> "0".
C2_AllFirstUnlessEmpty ==
    last.trigger # "none" =>
        /\ last.categories = EmptyDict \/ last.categories[1] = <<"All", "0">>
        /\ (~last.catHit /\ youtube[last.sess] = Client =>
                last.categories # EmptyDict)
        /\ (~last.catHit /\ youtube[last.sess] = Absent =>
                last.categories = EmptyDict)
        /\ \A r \in DOMAIN catCache :
                \/ catCache[r].value = EmptyDict
                \/ catCache[r].value[1] = <<"All", "0">>

\* C2 witness: the categories query failed upstream and the mapping
\* returned is the synthetic entry alone.
C2_Witness ==
    /\ last.catOutcome = "error"
    /\ last.categories = <<<<"All", "0">>>>

\* C3 as claimed: a call issues an upstream query exactly when the cache
\* holds no entry for its parameters younger than one hour.
C3_Original ==
    [][IsRun =>
        LET r == last'.region
            k == <<r, last'.selectedId, MaxResults>>
        IN  /\ last'.catQueries # <<>> <=> ~Younger(catCache, r, now)
            /\ (last'.vidCalled =>
                    (last'.vidQueries # <<>> <=> ~Younger(vidCache, k, now)))]_vars

\* C3 amended: a call issues an upstream query (exactly one) exactly when
\* the cache holds no entry for its parameters younger than one hour and the
\* calling session has a client; a call returns the stored value exactly
\* when such an entry exists, and otherwise stores what it returns.
C3_QueryIffMissAndClient ==
    [][IsRun =>
        LET r == last'.region
            k == <<r, last'.selectedId, MaxResults>>
            s == last'.sess
        IN  /\ last'.catQueries # <<>> <=>
                    ~Younger(catCache, r, now) /\ youtube'[s] = Client
            /\ Len(last'.catQueries) <= 1
            /\ last'.catHit <=> Younger(catCache, r, now)
            /\ (last'.catHit =>
                    last'.categories = catCache[r].value /\ catCache' = catCache)
            /\ (~last'.catHit =>
                    /\ catCache'[r].value = last'.categories
                    /\ catCache'[r].expires = now + TTL)
            /\ (last'.vidCalled =>
                    /\ last'.vidQueries # <<>> <=>
                            ~Younger(vidCache, k, now) /\ youtube'[s] = Client
                    /\ Len(last'.vidQueries) <= 1
                    /\ last'.vidHit <=> Younger(vidCache, k, now)
                    /\ (last'.vidHit =>
                            last'.vidResult = vidCache[k].value /\ vidCache' = vidCache)
                    /\ (~last'.vidHit =>
                            /\ vidCache'[k].value = last'.vidResult
                            /\ vidCache'[k].expires = now + TTL))]_vars

\* C3 witness: a button run an hour or more after the session's earlier
\* run stored the categories of the same country queried upstream again.
C3_Witness ==
    /\ last.trigger = "button"
    /\ last.at >= TTL
    /\ last.catQueries # <<>>
    /\ last.vidQueries # <<>>

\* C4 as claimed: in a session without a client, get_popular_videos
\* returns None for all parameters and the call issues no upstream query.
C4_AbsentReturnsAbsent ==
    last.vidCalled /\ youtube[last.sess] = Absent =>
        last.vidResult = None /\ last.vidQueries = <<>>

\* C5: the query of get_popular_videos carries no videoCategoryId when the
\* category id is "0", and videoCategoryId equal to the id otherwise.
C5_FilterOmittedOnlyForZero ==
    /\ \A i \in 1..Len(last.vidQueries) :
         LET q == last.vidQueries[i]
         IN  /\ q.regionCode = last.region
             /\ (last.selectedId = "0" => "videoCategoryId" \notin DOMAIN q)
             /\ (last.selectedId # "0" =>
                    /\ "videoCategoryId" \in DOMAIN q
                    /\ q.videoCategoryId = last.selectedId)
    /\ (last.vidCalled /\ ~last.vidHit /\ youtube[last.sess] = Client =>
            Len(last.vidQueries) = 1)

\* C5 witness: a query for category "27" was issued, with the filter.
C5_Witness ==
    /\ last.selectedId = "27"
    /\ last.vidQueries # <<>>
    /\ last.vidQueries[1].videoCategoryId = "27"

\* C7: get_popular_videos is called, and its upstream query issued, only in
\* a run caused by the button; a run caused by opening the page or by a
\* country or category choice leaves it uncalled and its cache untouched.
C7_FetchOnlyOnButton ==
    /\ [](last.trigger \in {"load", "country", "category"} =>
            /\ ~last.vidCalled
            /\ last.vidQueries = <<>>
            /\ last.view = "hint")
    /\ [][IsRun /\ last'.trigger # "button" => vidCache' = vidCache]_vars

\* C7 witness: a selection change in a session after videos were fetched.
C7_Witness ==
    /\ last.trigger \in {"country", "category"}
    /\ \E k \in DOMAIN vidCache : vidCache[k].by = last.sess

\* C8 as claimed: a value one session's call stored is never returned to
\* another session's call with the same parameters.
C8_CachePerSession ==
    /\ (last.catHit => last.catBy = last.sess)
    /\ (last.vidHit => last.vidBy = last.sess)

\* C9 as claimed: the category selector is disabled exactly in the sessions
\* without a client; with a client and a failed categories query it is
\* enabled and offers "All" alone.
C9_DisabledIffAbsent ==
    last.trigger # "none" =>
        /\ last.disabled <=> youtube[last.sess] = Absent
        /\ (youtube[last.sess] = Client /\ last.catOutcome = "error" =>
                options[last.sess] = <<"All">>)

\* C10 as claimed: a failed upstream query stores nothing, so the same
\* session repeating the call within the hour queries upstream again.
C10_FailureNotCached ==
    [][IsRun /\ last'.sess = last.sess /\ last'.region = last.region
             /\ now - last.at < TTL =>
          /\ (last.catOutcome = "error" => last'.catQueries # <<>>)
          /\ (last.vidOutcome \in {"http_error", "other_error"}
                /\ last'.vidCalled /\ last'.selectedId = last.selectedId =>
                    last'.vidQueries # <<>>)]_vars

\* ------------------------------------------------------ claims on the grid

\* The elements drawn for record i, and what they are, the container aside.
ElementsOf(i) ==
    LET OfRecord(e) == e.index = i IN SelectSeq(out, OfRecord)

ContentOf(i) ==
    LET Content(e) == e.what # "container"
        es == SelectSeq(ElementsOf(i), Content)
    IN  [j \in 1..Len(es) |-> es[j].what]

Warnings(i) ==
    LET IsWarning(e) == e.what = "warning" IN SelectSeq(ElementsOf(i), IsWarning)

\* The kinds of record that lack a field the card looks up with [].
Lacking ==
    {"no_snippet", "no_statistics", "no_id", "no_thumbnail", "no_title",
     "no_channelTitle"}

NormalCard == <<"image", "title", "channel", "views">>

\* The loop neither stops early nor reorders: every record reached so far
\* has drawn its elements, in its own column, in the order of the records.
BatchKept ==
    /\ \A i \in 0..(idx - 1) :
         /\ ElementsOf(i) # <<>>
         /\ \A j \in 1..Len(ElementsOf(i)) : ElementsOf(i)[j].col = i % GridColumns
    /\ \A j \in 1..Len(out) : out[j].index < idx
    /\ \A j \in 1..(Len(out) - 1) : out[j].index <= out[j + 1].index

\* C6 as claimed: a record lacking a required field draws one warning in
\* its slot and nothing of a normal card; every other record draws a
\* normal card; the batch is never cut short and keeps its order.
C6_Original ==
    /\ BatchKept
    /\ \A i \in 0..(idx - 1) :
         IF batch[i + 1] \in Lacking
         THEN ContentOf(i) = <<"warning">>
         ELSE ContentOf(i) = NormalCard

\* C6 amended: a record lacking a required field draws exactly one warning
\* in its slot, naming the field, after the card elements drawn before the
\* failed lookup: none without snippet, statistics, id or thumbnail, the
\* image without title, the image and the title without channel name.
C6_WarningAfterPartialCard ==
    /\ BatchKept
    /\ \A i \in 0..(idx - 1) :
         LET kind == batch[i + 1]
         IN  /\ Len(Warnings(i)) = IF kind \in Lacking THEN 1 ELSE 0
             /\ \A j \in 1..Len(Warnings(i)) :
                    /\ Warnings(i)[j].col = i % GridColumns
                    /\ "no_" \o Warnings(i)[j].detail = kind
             /\ ContentOf(i) =
                    CASE kind \in {"no_snippet", "no_statistics", "no_id",
                                   "no_thumbnail"} -> <<"warning">>
                      [] kind = "no_title" -> <<"image", "warning">>
                      [] kind = "no_channelTitle" -> <<"image", "title", "warning">>
                      [] OTHER -> NormalCard
    /\ (idx = Len(batch)
          /\ Cardinality({i \in 1..Len(batch) : batch[i] = "no_statistics"}) = 1
          /\ (\A i \in 1..Len(batch) : batch[i] \in {"full", "no_statistics"}) =>
            /\ Cardinality({i \in 0..(idx - 1) : ContentOf(i) = NormalCard})
                 = Len(batch) - 1
            /\ Cardinality({i \in 0..(idx - 1) : ContentOf(i) = <<"warning">>}) = 1)

\* C6 witness: a batch of four whose second record lacks statistics has
\* been drawn to the end.
C6_Witness ==
    /\ batch = <<"full", "no_statistics", "full", "full">>
    /\ idx = Len(batch)
    /\ ContentOf(1) = <<"warning">>
    /\ ContentOf(3) = NormalCard

=============================================================================
